---------------------------- MODULE Spec2Model ----------------------------
(***************************************************************************)
(* The notebook libs/ai-endpoints/docs/retrievers/nvidia_rerank.ipynb as a *)
(* state machine.  A state is the kernel's namespace after some prefix of  *)
(* the code cells has been executed; there is one action per code cell,    *)
(* and the cells are executed once each, in notebook order.  A cell that   *)
(* raises leaves the bindings made by its earlier statements in place and  *)
(* the next cell is executed against that namespace.  (A front end that    *)
(* stops at the first error produces prefixes of these behaviours, so an   *)
(* invariant of this model is an invariant of such runs too.)              *)
(*                                                                         *)
(* Documents are natural numbers.  The external services are modelled by   *)
(* their answers: the BM25 and FAISS retrievers answer with an arbitrary   *)
(* short list of documents, the PGVector collection is 1..collection_size  *)
(* named in decreasing similarity to the query, and the remote ranking     *)
(* model is an arbitrary scoring table.  Each external call may fail.      *)
(***************************************************************************)
EXTENDS Integers, Sequences, FiniteSets, TLC

VARIABLES
    pc,               \* position in CodeCells of the next cell to execute
    status,           \* per code cell: "pending", "ok" or the exception raised
    assigns,          \* per name: how many times the kernel has bound it
    query,            \* value of `query` ("" while unbound)
    bm25_docs,        \* value of `bm25_docs` (<<>> while unbound)
    sem_docs,         \* value of `sem_docs`
    all_docs,         \* value of `all_docs`
    subset_docs,      \* value of `subset_docs`
    docs,             \* value of `docs`
    ranker,           \* value of `ranker`: [top_n |-> n]
    calls,            \* log of the external calls issued, oldest first
    rr,               \* the most recent compress_documents invocation
    score,            \* the ranking model's scoring table
    collection_size,  \* number of documents in the PGVector collection
    default_top_n     \* top_n of an NVIDIARerank built without arguments

vars == <<pc, status, assigns, query, bm25_docs, sem_docs, all_docs,
          subset_docs, docs, ranker, calls, rr, score, collection_size,
          default_top_n>>

nbvars == <<pc, status, assigns, query, bm25_docs, sem_docs, all_docs,
            subset_docs, docs, ranker, calls>>

envvars == <<score, collection_size, default_top_n>>

---------------------------------------------------------------------------
(* Bounds of the model. *)

NDocs == 2        \* documents the BM25 and FAISS stores can answer with
MaxLen == 2       \* longest answer of the BM25 and FAISS retrievers
MaxScore == 1     \* relevance scores are 0..MaxScore
MaxTopN == 2      \* largest top_n tried outside the notebook's own

(* Program constants. *)

SimilarityK == 1000     \* k=1_000
RerankTopN == 10        \* top_n=10

Min(a, b) == IF a <= b THEN a ELSE b

Range(s) == {s[i] : i \in 1..Len(s)}

SeqsUpTo(S, n) == UNION {[1..m -> S] : m \in 0..n}

Docs == 1..NDocs

\* Sizes of the PGVector collection: empty, around top_n, around k.
CollectionSizes == {0, RerankTopN - 1, RerankTopN + 1,
                    SimilarityK - 1, SimilarityK, SimilarityK + 1}

---------------------------------------------------------------------------
(* The notebook. *)

QueryText == "What is the meaning of life?"

OtherQuery == "another query"

\* Indices, in the notebook's cell list, of its code cells.
CodeCells == <<3, 5, 6, 7, 9, 10, 11, 13, 15, 17>>

NumCodeCells == Len(CodeCells)

Done == NumCodeCells + 1

Names == {"query", "elasticsearch", "ElasticSearchBM25Retriever",
          "bm25_retriever", "bm25_docs", "FAISS", "NVIDIAEmbeddings",
          "embeddings", "allow_dangerous_deserialization", "sem_retriever",
          "sem_docs", "NVIDIARerank", "ranker", "all_docs", "docs",
          "PGVector", "store", "subset_docs"}

Bound(n) == assigns[n] > 0

\* ns with every name of B bound once more.
Bind(ns, B) == [n \in Names |-> IF n \in B THEN ns[n] + 1 ELSE ns[n]]

\* Cell 10 does not compile: the call to FAISS.load_local lacks the comma
\* between embeddings=embeddings and allow_dangerous_deserialization=...
Compiles(c) == c # 10

AtCell(c) == pc <= NumCodeCells /\ CodeCells[pc] = c

\* A kernel that runs a raising cell again instead of moving on.
Finish_rerun(c, st) ==
    /\ pc' = IF st = "ok" THEN pc + 1 ELSE pc
    /\ status' = [status EXCEPT ![c] = st]

Finish(c, st) ==
    /\ pc' = pc + 1
    /\ status' = [status EXCEPT ![c] = st]

Call(c, fn, q, ok) == [cell |-> c, fn |-> fn, query |-> q, ok |-> ok]

NoCall == [called |-> FALSE, query |-> "", documents |-> <<>>, top_n |-> 0,
           result |-> <<>>]

---------------------------------------------------------------------------
(* The external services. *)

\* Relevance of document d to query q, as the remote ranking model scores it.
relevance(q, d) ==
    LET s == score[((d - 1) % NDocs) + 1]
    IN  IF q = QueryText THEN s ELSE MaxScore - s

\* The documents of ds whose relevance to q is s or more, best first, ties in
\* the order of ds.
RECURSIVE ByRelevance(_, _, _)
ByRelevance(q, ds, s) ==
    IF s > MaxScore THEN <<>>
    ELSE ByRelevance(q, ds, s + 1)
         \o SelectSeq(ds, LAMBDA d : relevance(q, d) = s)

\* A reranker that reorders but forgets to truncate to top_n.
compress_documents_untruncated(top_n, q, ds) == ByRelevance(q, ds, 0)

\* NVIDIARerank(top_n=top_n).compress_documents(query=q, documents=ds): the
\* documents reordered by relevance to the query and truncated to top_n.
compress_documents(top_n, q, ds) ==
    SubSeq(ByRelevance(q, ds, 0), 1, Min(top_n, Len(ds)))

\* store.similarity_search(q, k): the k documents of the collection nearest
\* to the query, nearest first.
similarity_search(q, k) == [i \in 1..Min(k, collection_size) |-> i]

\* What a retriever's get_relevant_documents can return.
RetrieverAnswers == SeqsUpTo(Docs, MaxLen)

Invocation(top_n, q, ds) ==
    [called |-> TRUE, query |-> q, documents |-> ds, top_n |-> top_n,
     result |-> compress_documents(top_n, q, ds)]

---------------------------------------------------------------------------
(* The code cells. *)

\* query = "What is the meaning of life?"
Cell3 ==
    /\ AtCell(3)
    /\ query' = QueryText
    /\ assigns' = Bind(assigns, {"query"})
    /\ Finish(3, "ok")
    /\ UNCHANGED <<bm25_docs, sem_docs, all_docs, subset_docs, docs, ranker,
                   calls, rr, envvars>>

\* A %pip install cell binds no name.
Pip(c) ==
    /\ AtCell(c)
    /\ Finish(c, "ok")
    /\ UNCHANGED <<assigns, query, bm25_docs, sem_docs, all_docs, subset_docs,
                   docs, ranker, calls, rr, envvars>>

Cell5 == Pip(5)

\* import elasticsearch, ElasticSearchBM25Retriever; bm25_retriever = ...
Cell6 ==
    /\ AtCell(6)
    /\ assigns' = Bind(assigns, {"elasticsearch", "ElasticSearchBM25Retriever",
                                 "bm25_retriever"})
    /\ Finish(6, "ok")
    /\ UNCHANGED <<query, bm25_docs, sem_docs, all_docs, subset_docs, docs,
                   ranker, calls, rr, envvars>>

\* Cell 7 with a retry: a failed fetch is issued a second time.
Cell7_retry ==
    /\ AtCell(7)
    /\ \E answer \in RetrieverAnswers :
          /\ calls' = calls \o <<Call(7, "bm25", query, FALSE),
                                 Call(7, "bm25", query, TRUE)>>
          /\ bm25_docs' = answer
          /\ assigns' = Bind(assigns, {"bm25_docs"})
          /\ Finish(7, "ok")
    /\ UNCHANGED <<query, sem_docs, all_docs, subset_docs, docs, ranker, rr,
                   envvars>>

\* bm25_docs = bm25_retriever.get_relevant_documents(query)
Cell7 ==
    /\ AtCell(7)
    /\ IF Bound("bm25_retriever") /\ Bound("query")
       THEN \/ \E answer \in RetrieverAnswers :
                 /\ calls' = Append(calls, Call(7, "bm25", query, TRUE))
                 /\ bm25_docs' = answer
                 /\ assigns' = Bind(assigns, {"bm25_docs"})
                 /\ Finish(7, "ok")
            \/ /\ calls' = Append(calls, Call(7, "bm25", query, FALSE))
               /\ Finish(7, "CallError")
               /\ UNCHANGED <<bm25_docs, assigns>>
       ELSE /\ Finish(7, "NameError")
            /\ UNCHANGED <<bm25_docs, assigns, calls>>
    /\ UNCHANGED <<query, sem_docs, all_docs, subset_docs, docs, ranker, rr,
                   envvars>>

Cell9 == Pip(9)

\* from ... import FAISS, NVIDIAEmbeddings; embeddings = NVIDIAEmbeddings();
\* allow_dangerous_deserialization=True;
\* sem_retriever = FAISS.load_local(...).as_retriever()
Cell10 ==
    /\ AtCell(10)
    /\ IF Compiles(10)
       THEN /\ assigns' = Bind(assigns, {"FAISS", "NVIDIAEmbeddings",
                                         "embeddings",
                                         "allow_dangerous_deserialization",
                                         "sem_retriever"})
            /\ Finish(10, "ok")
       ELSE /\ Finish(10, "SyntaxError")
            /\ UNCHANGED assigns
    /\ UNCHANGED <<query, bm25_docs, sem_docs, all_docs, subset_docs, docs,
                   ranker, calls, rr, envvars>>

\* sem_docs = sem_retriever.get_relevant_documents(query)
Cell11 ==
    /\ AtCell(11)
    /\ IF Bound("sem_retriever") /\ Bound("query")
       THEN \/ \E answer \in RetrieverAnswers :
                 /\ calls' = Append(calls, Call(11, "sem", query, TRUE))
                 /\ sem_docs' = answer
                 /\ assigns' = Bind(assigns, {"sem_docs"})
                 /\ Finish(11, "ok")
            \/ /\ calls' = Append(calls, Call(11, "sem", query, FALSE))
               /\ Finish(11, "CallError")
               /\ UNCHANGED <<sem_docs, assigns>>
       ELSE /\ Finish(11, "NameError")
            /\ UNCHANGED <<sem_docs, assigns, calls>>
    /\ UNCHANGED <<query, bm25_docs, all_docs, subset_docs, docs, ranker, rr,
                   envvars>>

\* bm25_docs + sem_docs
Concat(a, b) == a \o b

\* from ... import NVIDIARerank; ranker = NVIDIARerank();
\* all_docs = bm25_docs + sem_docs;
\* docs = ranker.compress_documents(query=query, documents=all_docs)
Cell13 ==
    /\ AtCell(13)
    /\ ranker' = [top_n |-> default_top_n]
    /\ IF ~(Bound("bm25_docs") /\ Bound("sem_docs"))
       THEN /\ assigns' = Bind(assigns, {"NVIDIARerank", "ranker"})
            /\ Finish(13, "NameError")
            /\ UNCHANGED <<all_docs, docs, calls, rr>>
       ELSE
       /\ all_docs' = Concat(bm25_docs, sem_docs)
       /\ IF ~Bound("query")
          THEN /\ assigns' = Bind(assigns, {"NVIDIARerank", "ranker",
                                            "all_docs"})
               /\ Finish(13, "NameError")
               /\ UNCHANGED <<docs, calls, rr>>
          ELSE
          \/ /\ calls' = Append(calls, Call(13, "rerank", query, TRUE))
             /\ rr' = Invocation(ranker'.top_n, query, all_docs')
             /\ docs' = rr'.result
             /\ assigns' = Bind(assigns, {"NVIDIARerank", "ranker",
                                          "all_docs", "docs"})
             /\ Finish(13, "ok")
          \/ /\ calls' = Append(calls, Call(13, "rerank", query, FALSE))
             /\ assigns' = Bind(assigns, {"NVIDIARerank", "ranker",
                                          "all_docs"})
             /\ Finish(13, "CallError")
             /\ UNCHANGED <<docs, rr>>
    /\ UNCHANGED <<query, bm25_docs, sem_docs, subset_docs, envvars>>

Cell15 == Pip(15)

\* The single-source ranker built without top_n=10.
Cell17Ranker_default == [top_n |-> default_top_n]

\* NVIDIARerank(top_n=10)
Cell17Ranker == [top_n |-> RerankTopN]

\* store.similarity_search(query, k=1_000)
Cell17Search == similarity_search(query, SimilarityK)

\* The single-source rerank handed bm25_docs instead of subset_docs.
Cell17Documents_bm25 == bm25_docs

\* documents=subset_docs
Cell17Documents == subset_docs'

\* from ... import NVIDIAEmbeddings, PGVector; ranker = NVIDIARerank(top_n=10);
\* embeddings = NVIDIAEmbeddings(); store = PGVector(...);
\* subset_docs = store.similarity_search(query, k=1_000);
\* docs = ranker.compress_documents(query=query, documents=subset_docs)
Cell17 ==
    /\ AtCell(17)
    /\ IF ~Bound("NVIDIARerank")
       THEN /\ assigns' = Bind(assigns, {"NVIDIAEmbeddings", "PGVector"})
            /\ Finish(17, "NameError")
            /\ UNCHANGED <<ranker, subset_docs, docs, calls, rr>>
       ELSE
       /\ ranker' = Cell17Ranker
       /\ IF ~Bound("query")
          THEN /\ assigns' = Bind(assigns, {"NVIDIAEmbeddings", "PGVector",
                                            "ranker", "embeddings", "store"})
               /\ Finish(17, "NameError")
               /\ UNCHANGED <<subset_docs, docs, calls, rr>>
          ELSE
          \/ /\ calls' = Append(calls, Call(17, "similarity", query, FALSE))
             /\ assigns' = Bind(assigns, {"NVIDIAEmbeddings", "PGVector",
                                          "ranker", "embeddings", "store"})
             /\ Finish(17, "CallError")
             /\ UNCHANGED <<subset_docs, docs, rr>>
          \/ /\ subset_docs' = Cell17Search
             /\ \/ /\ calls' = calls \o <<Call(17, "similarity", query, TRUE),
                                          Call(17, "rerank", query, FALSE)>>
                   /\ assigns' = Bind(assigns, {"NVIDIAEmbeddings", "PGVector",
                                                "ranker", "embeddings",
                                                "store", "subset_docs"})
                   /\ Finish(17, "CallError")
                   /\ UNCHANGED <<docs, rr>>
                \/ /\ calls' = calls \o <<Call(17, "similarity", query, TRUE),
                                          Call(17, "rerank", query, TRUE)>>
                   /\ rr' = Invocation(ranker'.top_n, query, Cell17Documents)
                   /\ docs' = rr'.result
                   /\ assigns' = Bind(assigns, {"NVIDIAEmbeddings", "PGVector",
                                                "ranker", "embeddings",
                                                "store", "subset_docs",
                                                "docs"})
                   /\ Finish(17, "ok")
    /\ UNCHANGED <<query, bm25_docs, sem_docs, all_docs, envvars>>

---------------------------------------------------------------------------
(* A kernel freshly started: nothing bound, nothing executed. *)

Init ==
    /\ pc = 1
    /\ status = [c \in Range(CodeCells) |-> "pending"]
    /\ assigns = [n \in Names |-> 0]
    /\ query = ""
    /\ bm25_docs = <<>>
    /\ sem_docs = <<>>
    /\ all_docs = <<>>
    /\ subset_docs = <<>>
    /\ docs = <<>>
    /\ ranker = [top_n |-> 0]
    /\ calls = <<>>
    /\ rr = NoCall
    /\ score \in [Docs -> 0..MaxScore]
    /\ collection_size \in CollectionSizes
    /\ default_top_n \in 1..MaxTopN

Next ==
    \/ Cell3
    \/ Cell5
    \/ Cell6
    \/ Cell7
    \/ Cell9
    \/ Cell10
    \/ Cell11
    \/ Cell13
    \/ Cell15
    \/ Cell17

Spec == Init /\ [][Next]_vars

FairSpec == Spec /\ WF_vars(Next)

(* The reranker on its own: compress_documents applied once to any short    *)
(* list of documents, either query and any top_n up to MaxTopN.             *)
Rerank ==
    /\ ~rr.called
    /\ \E top_n \in 0..MaxTopN, q \in {QueryText, OtherQuery},
          ds \in SeqsUpTo(Docs, MaxLen + 1) :
          rr' = Invocation(top_n, q, ds)
    /\ UNCHANGED <<nbvars, envvars>>

SpecRerank == Init /\ [][Rerank]_vars

---------------------------------------------------------------------------
(* Vocabulary of the properties. *)

Executed(c) == status[c] # "pending"

\* Every external call issued so far has returned.
NoCallError == \A i \in 1..Len(calls) : calls[i].ok

\* Number of code cells executed so far.
Steps == Cardinality({c \in Range(CodeCells) : Executed(c)})

\* Positions in the log of the calls of fn issued by cell c.
CallsOf(fn, c) == {i \in 1..Len(calls) : calls[i].fn = fn /\ calls[i].cell = c}

\* The functions called, in order, by the cells of C.
FnsOf(C) ==
    LET sub == SelectSeq(calls, LAMBDA x : x.cell \in C)
    IN  [i \in 1..Len(sub) |-> sub[i].fn]

\* The name a call's result is assigned to.
Target(fn) ==
    CASE fn = "bm25" -> "bm25_docs"
      [] fn = "sem" -> "sem_docs"
      [] fn = "similarity" -> "subset_docs"
      [] fn = "rerank" -> "docs"

\* The pipeline a cell belongs to.
Pipeline(c) == IF c = 17 THEN "single" ELSE "multi"

\* ds is in non-increasing order of relevance to q.
OrderedByRelevance(q, ds) ==
    \A i, j \in 1..Len(ds) : i < j => relevance(q, ds[i]) >= relevance(q, ds[j])

---------------------------------------------------------------------------
(* C9: when the code cells are executed once each in notebook order and the *)
(* external services answer, every executed cell completes and every name   *)
(* a cell reads is bound: sem_retriever before sem_docs is computed,        *)
(* bm25_docs and sem_docs before all_docs is built, NVIDIARerank before the *)
(* single-source cell.  Violated: cell 10 does not compile.                 *)
C9_EveryCellCompletes ==
    NoCallError =>
        /\ \A c \in Range(CodeCells) : Executed(c) => status[c] = "ok"
        /\ Executed(11) => Bound("sem_retriever")
        /\ Executed(13) => Bound("bm25_docs") /\ Bound("sem_docs")
        /\ Executed(17) => Bound("NVIDIARerank")

(* C2: once the combine-and-rank cell has been executed, docs is bound to   *)
(* the reranker's result and is in non-increasing order of relevance to the *)
(* query.  Violated: the cell raises before docs is assigned.               *)
C2_DocsOrderedAfterCombine ==
    (Executed(13) /\ ~Executed(17) /\ NoCallError) =>
        /\ Bound("docs")
        /\ rr.called /\ docs = rr.result
        /\ OrderedByRelevance(query, docs)

C5_LinearPipeline ==
    (Executed(13) /\ NoCallError) =>
        /\ FnsOf({7, 11, 13}) = <<"bm25", "sem", "rerank">>
        /\ assigns["all_docs"] = 1

(* C6: once the combine-and-rank cell has been executed, all_docs is        *)
(* bm25_docs followed by sem_docs, duplicates kept, and that list is what   *)
(* the reranker was handed.  Violated: all_docs is never assigned.          *)
C6_PlainConcatenation ==
    (Executed(13) /\ ~Executed(17) /\ NoCallError) =>
        /\ Bound("all_docs")
        /\ Len(all_docs) = Len(bm25_docs) + Len(sem_docs)
        /\ SubSeq(all_docs, 1, Len(bm25_docs)) = bm25_docs
        /\ SubSeq(all_docs, Len(bm25_docs) + 1, Len(all_docs)) = sem_docs
        /\ rr.called /\ rr.documents = all_docs

(* C1: whatever the query, the candidate list and top_n, the list          *)
(* compress_documents returns is no longer than top_n, no longer than its   *)
(* input, and holds only documents of its input.                            *)
C1_RerankBounded ==
    rr.called =>
        /\ Len(rr.result) <= rr.top_n
        /\ Len(rr.result) <= Len(rr.documents)
        /\ \A i \in 1..Len(rr.result) : rr.result[i] \in Range(rr.documents)

\* The reranker was handed more documents than top_n and truncated.
C1_Truncates ==
    /\ rr.called
    /\ rr.top_n > 0
    /\ Len(rr.documents) > rr.top_n
    /\ Len(rr.result) = rr.top_n

(* C3: when the collection holds at least 1,000 documents and the           *)
(* single-source cell completes, subset_docs has exactly 1,000 documents    *)
(* and docs exactly 10, all of them taken from subset_docs.                 *)
C3_Narrowing ==
    (status[17] = "ok" /\ collection_size >= SimilarityK) =>
        /\ Len(subset_docs) = SimilarityK
        /\ Len(docs) = RerankTopN
        /\ Range(docs) \subseteq Range(subset_docs)

\* The single-source cell completed on a collection of more than 1,000.
C3_Narrowed ==
    /\ status[17] = "ok"
    /\ collection_size > SimilarityK
    /\ Len(docs) = RerankTopN

=============================================================================
